---------------------------- MODULE Spec2Model ----------------------------
(***************************************************************************)
(* Model of the `morphoclass predict-after-extraction` command             *)
(* (src/morphoclass/console/cmd_predict.py).                               *)
(*                                                                         *)
(* predict() is modelled stage by stage: one action per stage of the       *)
(* script, `pc` being the position of the run.  Strings the code inspects  *)
(* character by character (the user's answer, the checkpoint's             *)
(* model_class) are sequences of one-character strings; strings the code   *)
(* only concatenates (file names) are sequences of tokens.                 *)
(***************************************************************************)
EXTENDS Integers, Sequences, FiniteSets, TLC

VARIABLES
    pc,            \* position of the run inside predict()
    opt_name,      \* the -n/--results-name option (None when omitted)
    fs,            \* the file system: existing regular files -> content
    fs0,           \* the file system as it was when predict() was called
    now,           \* what datetime.now() returned at line 91, formatted
    dirs,          \* the file system: existing directories
    results_name,  \* local: results_name after line 92
    results_path,  \* local: results_path (line 93)
    timestamp,     \* local: timestamp (lines 91 and 117)
    response,      \* local: the answer read by input() (line 100)
    checkpoint,    \* local: the loaded checkpoint (line 113)
    model_class,   \* local: checkpoint["model_class"] (line 114)
    dataset,       \* local: dataset.data (lines 121-124)
    predictions,   \* local: predictions (lines 130, 133, 135)
    trace          \* what the run did, in order: stage banners printed,
                   \* file system calls, prediction routines called

vars == <<pc, opt_name, fs, fs0, now, dirs, results_name, results_path, timestamp,
          response, checkpoint, model_class, dataset, predictions, trace>>

None == <<"None">>

(***************************************************************************)
(* Bounds of the model.                                                    *)
(***************************************************************************)
MaxResponseLen == 3
MaxSamples == 2

(***************************************************************************)
(* Strings.                                                                *)
(***************************************************************************)
Min(a, b) == IF a < b THEN a ELSE b

SeqsUpTo(S, n) == UNION {[1..k -> S] : k \in 0..n}

\* Python's `sub in s` for strings.
Contains(s, sub) ==
    \E i \in 1..(Len(s) - Len(sub) + 1) : SubSeq(s, i, i + Len(sub) - 1) = sub

Whitespace == {" ", "\t", "\n"}

RECURSIVE LStrip(_)
LStrip(s) == IF s # <<>> /\ Head(s) \in Whitespace THEN LStrip(Tail(s)) ELSE s

RECURSIVE RStrip(_)
RStrip(s) ==
    IF s # <<>> /\ s[Len(s)] \in Whitespace
    THEN RStrip(SubSeq(s, 1, Len(s) - 1))
    ELSE s

\* str.strip()
Strip(s) == RStrip(LStrip(s))

LowerChar(c) ==
    CASE c = "Y" -> "y"
      [] c = "N" -> "n"
      [] OTHER -> c

\* str.lower()
Lower(s) == [i \in 1..Len(s) |-> LowerChar(s[i])]


\* str.rpartition(".")[2]: what follows the last "." (all of s without one)
RECURSIVE RPartitionLast(_)
RPartitionLast(s) ==
    IF ~Contains(s, <<".">>) THEN s
    ELSE RPartitionLast(Tail(s))

(***************************************************************************)
(* Paths (pathlib).  A path is a sequence of tokens; "/" is the separator. *)
(***************************************************************************)
OutputDir == <<"/", "out">>
TmpDir == <<"/", "tmp">>
RootDir == <<"/">>
CheckpointFile == <<"/", "ckpt", "/", "model.chk">>

\* pathlib's `dir / name`: an absolute right-hand side replaces the left.
PathJoin(dir, name) ==
    IF name # <<>> /\ Head(name) = "/" THEN name
    ELSE IF name = <<>> THEN dir
    ELSE dir \o <<"/">> \o name

\* The directory a path lies in.
RECURSIVE Parent(_)
Parent(path) ==
    IF Len(path) <= 1 THEN RootDir
    ELSE IF path[Len(path)] = "/" THEN SubSeq(path, 1, Len(path) - 1)
    ELSE Parent(SubSeq(path, 1, Len(path) - 1))

\* pathlib.Path.exists()
Exists(path) == path \in DOMAIN fs \/ path \in dirs

(***************************************************************************)
(* Inputs of a run.                                                        *)
(***************************************************************************)
\* values of -n/--results-name: omitted, plain, ending in ".json", empty,
\* absolute
OptNames ==
    {None, <<"res">>, <<"res", ".json">>, <<>>, <<"/", "tmp", "/", "res">>}

\* datetime.now().strftime("%Y-%m-%d_%H-%M-%S")
Nows == {"2022-05-01_10-00-00", "2022-05-01_10-00-01"}

\* checkpoint["metadata"]["timestamp"]
MetaTimestamps == {"2021-12-24_08-30-00"}

ResponseChars == {"y", "Y", "n", " "}
Responses == SeqsUpTo(ResponseChars, MaxResponseLen)

ManNet == <<"M", "a", "n", "N", "e", "t">>
CNN == <<"C", "N", "N">>
XGB == <<"X", "G", "B">>
CNNet == CNN \o <<"e", "t">>

\* values of checkpoint["model_class"]
ModelClasses ==
    { <<"m", ".">> \o ManNet,                 \* m.ManNet
      <<"m", ".">> \o CNNet,                  \* m.CNNet
      <<"x", ".">> \o XGB \o <<"C">>,         \* x.XGBC
      <<"m", ".", "N", "e", "t">>,            \* m.Net
      <<"m", ".", "c", "n", "n">>,            \* m.cnn
      CNN \o <<".">> \o ManNet,               \* CNN.ManNet
      XGB \o <<".">> \o CNNet,                \* XGB.CNNet
      ManNet \o <<".">> \o XGB,               \* ManNet.XGB
      <<"m", ".">> \o ManNet \o <<"X">> }     \* m.ManNetX

\* the classes morphoclass.models exports
ModelsNamespace == {ManNet, CNNet}

Checkpoints ==
    {[model_class |-> m] : m \in ModelClasses}
    \cup {[model_class |-> m, metadata |-> [timestamp |-> t]] :
            m \in ModelClasses, t \in MetaTimestamps}

\* what a *.features file holds: the morphology's path and, standing for
\* what the checkpoint's model computes on it, the class scores
SamplePaths == {"a.swc", "b.swc"}
LogitsSet == {<<0, 1>>, <<1, 1>>}
Samples == [path : SamplePaths, logits : LogitsSet]
Datasets == SeqsUpTo(Samples, MaxSamples)

\* dataset.y_to_label
YToLabel == <<"L5_TPC_A", "L5_UPC">>

OldContent ==
    [predictions |-> <<>>, checkpoint_path |-> <<"?">>, model |-> <<"?">>]

\* the result files that may lie around before the run
CandidateFiles ==
    {PathJoin(OutputDir, n \o <<".json">>) : n \in OptNames \ {None}}
    \cup {PathJoin(OutputDir, <<"results_", t, ".json">>) : t \in Nows}
    \cup {PathJoin(OutputDir, <<"res">>)}

Event(e, a) == [ev |-> e, arg |-> a]

Init ==
    /\ pc = "start"
    /\ opt_name \in OptNames
    /\ \E old \in {S \in SUBSET CandidateFiles : Cardinality(S) <= 1} :
          fs = [p \in old |-> OldContent]
    /\ fs0 = fs
    /\ now = "unread"
    /\ dirs \in {D \in SUBSET {OutputDir, TmpDir} :
                    /\ TmpDir \in D
                    /\ \A p \in DOMAIN fs : Parent(p) \in D}
    /\ results_name = None
    /\ results_path = None
    /\ timestamp = "unbound"
    /\ response = None
    /\ checkpoint = [unbound |-> TRUE]
    /\ model_class = None
    /\ dataset = <<>>
    /\ predictions = <<>>
    /\ trace = <<>>

(***************************************************************************)
(* Lines 87-97: the result file's name and path, and the existence check.  *)
(***************************************************************************)
ResultsName(opt, t) == IF opt = None THEN <<"results_", t>> ELSE opt

\* a variant that leaves a name already ending in ".json" as it is
ResultsPathKeepJson(name) ==
    IF name # <<>> /\ name[Len(name)] = ".json"
    THEN PathJoin(OutputDir, name)
    ELSE PathJoin(OutputDir, name \o <<".json">>)

ResultsPath(name) == PathJoin(OutputDir, name \o <<".json">>)

Start ==
    /\ pc = "start"
    /\ \E t \in (IF opt_name = None THEN Nows ELSE {now}) :
          LET name == ResultsName(opt_name, t)
              path == ResultsPath(name)
          IN  /\ now' = t
              /\ results_name' = name
              /\ results_path' = path
              /\ timestamp' = IF opt_name = None THEN t ELSE timestamp
              /\ trace' = Append(trace, Event("exists", path))
              /\ pc' = IF Exists(path) THEN "ask" ELSE "load_checkpoint"
    /\ UNCHANGED <<opt_name, fs, fs0, dirs, response, checkpoint, model_class,
                   dataset, predictions>>

(***************************************************************************)
(* Lines 98-105: the overwrite question.                                   *)
(***************************************************************************)
\* a variant that takes every answer starting with "y" ("yes", "yn") as a yes
ConfirmedPrefix(r) == Strip(r) # <<>> /\ Head(Lower(Strip(r))) = "y"

Confirmed(r) == Lower(Strip(r)) = <<"y">>

Ask ==
    /\ pc = "ask"
    /\ \/ \E r \in Responses :
             /\ response' = r
             /\ IF Confirmed(r)
                THEN /\ pc' = "load_checkpoint"
                     /\ trace' = trace \o <<Event("prompt", results_path),
                                            Event("proceeding", <<>>)>>
                ELSE /\ pc' = "stopped"
                     /\ trace' = trace \o <<Event("prompt", results_path),
                                            Event("stopping", <<>>)>>
       \/ \* input() raises EOFError
          /\ response' = response
          /\ pc' = "crashed"
          /\ trace' = Append(trace, Event("prompt", results_path))
    /\ UNCHANGED <<opt_name, fs, fs0, now, dirs, results_name, results_path, timestamp,
                   checkpoint, model_class, dataset, predictions>>

(***************************************************************************)
(* Lines 107-118: the checkpoint.                                          *)
(***************************************************************************)
\* a variant that opens the results file for writing while loading the
\* checkpoint
LoadCheckpointOpensResults ==
    /\ pc = "load_checkpoint"
    /\ trace' = trace \o <<Event("loading_checkpoint", CheckpointFile),
                           Event("open_w", results_path)>>
    /\ \E c \in Checkpoints :
          /\ checkpoint' = c
          /\ model_class' = c.model_class
          /\ timestamp' = IF "metadata" \in DOMAIN c
                          THEN c.metadata.timestamp
                          ELSE timestamp
          /\ pc' = "load_data"
    /\ UNCHANGED <<opt_name, fs, fs0, now, dirs, results_name, results_path,
                   response, dataset, predictions>>

LoadCheckpoint ==
    /\ pc = "load_checkpoint"
    /\ trace' = Append(trace, Event("loading_checkpoint", CheckpointFile))
    /\ \/ \E c \in Checkpoints :
             /\ checkpoint' = c
             /\ model_class' = c.model_class
             /\ timestamp' = IF "metadata" \in DOMAIN c
                             THEN c.metadata.timestamp
                             ELSE timestamp
             /\ pc' = "load_data"
       \/ \* torch.load raises
          /\ pc' = "crashed"
          /\ UNCHANGED <<checkpoint, model_class, timestamp>>
    /\ UNCHANGED <<opt_name, fs, fs0, now, dirs, results_name, results_path, response,
                   dataset, predictions>>

(***************************************************************************)
(* Lines 120-125: the samples, one per *.features file, in sorted order.   *)
(***************************************************************************)
LoadData ==
    /\ pc = "load_data"
    /\ trace' = Append(trace, Event("loading_data", <<>>))
    /\ \/ \E d \in Datasets :
             /\ dataset' = d
             /\ pc' = "compute"
       \/ \* MorphologyData.load raises
          /\ pc' = "crashed"
          /\ UNCHANGED dataset
    /\ UNCHANGED <<opt_name, fs, fs0, now, dirs, results_name, results_path, timestamp,
                   response, checkpoint, model_class, predictions>>

(***************************************************************************)
(* Lines 162-247: the three prediction routines.  A routine's result is    *)
(* [ok |-> TRUE, val |-> ...] or, when it raises, [ok |-> FALSE, ...].     *)
(***************************************************************************)
Return(v) == [ok |-> TRUE, val |-> v]
Raise == [ok |-> FALSE, val |-> <<>>]

\* getattr(morphoclass.models, checkpoint["model_class"].rpartition(".")[2])
GetModelCls(ckpt) == RPartitionLast(ckpt.model_class) \in ModelsNamespace

\* np.array(logits) of one score vector per sample
predict_gnn(data, ckpt) ==
    IF GetModelCls(ckpt)
    THEN Return([i \in 1..Len(data) |-> data[i].logits])
    ELSE Raise

\* np.concatenate of one (1, n_classes) block per sample; np.array([]) of none
predict_cnn(data, ckpt) ==
    IF GetModelCls(ckpt)
    THEN Return([i \in 1..Len(data) |-> data[i].logits])
    ELSE Raise

\* index of the first maximum, counted from 0
Argmax(v) ==
    (CHOOSE i \in 1..Len(v) :
        /\ \A j \in 1..Len(v) : v[j] <= v[i]
        /\ \A j \in 1..(i - 1) : v[j] < v[i]) - 1

\* model.predict(...)[0] per sample
predict_xgb(data, ckpt) == Return([i \in 1..Len(data) |-> Argmax(data[i].logits)])

\* logits.argmax(axis=1): the empty array np.array([]) has no axis 1
ArgmaxAxis1(logits) ==
    IF Len(logits) = 0 THEN Raise
    ELSE Return([i \in 1..Len(logits) |-> Argmax(logits[i])])

(***************************************************************************)
(* Lines 127-143: the dispatch on model_class.                             *)
(***************************************************************************)
\* a variant that tests "CNN" before "ManNet"
DispatchCnnFirst(mc) ==
    IF Contains(mc, CNN) THEN "predict_cnn"
    ELSE IF Contains(mc, ManNet) THEN "predict_gnn"
    ELSE IF Contains(mc, XGB) THEN "predict_xgb"
    ELSE "none"

\* a variant whose last branch is a plain else
DispatchElseXgb(mc) ==
    IF Contains(mc, ManNet) THEN "predict_gnn"
    ELSE IF Contains(mc, CNN) THEN "predict_cnn"
    ELSE "predict_xgb"

Dispatch(mc) ==
    IF Contains(mc, ManNet) THEN "predict_gnn"
    ELSE IF Contains(mc, CNN) THEN "predict_cnn"
    ELSE IF Contains(mc, XGB) THEN "predict_xgb"
    ELSE "none"

\* lines 128-135 for the routine chosen
Predict(routine, data, ckpt) ==
    CASE routine = "predict_gnn" ->
            LET logits == predict_gnn(data, ckpt)
            IN  IF logits.ok THEN ArgmaxAxis1(logits.val) ELSE Raise
      [] routine = "predict_cnn" ->
            LET logits == predict_cnn(data, ckpt)
            IN  IF logits.ok THEN ArgmaxAxis1(logits.val) ELSE Raise
      [] routine = "predict_xgb" -> predict_xgb(data, ckpt)

ComputePredictions ==
    /\ pc = "compute"
    /\ LET routine == Dispatch(model_class)
           banner == Event("computing_predictions", <<>>)
       IN  IF routine = "none"
           THEN /\ trace' = trace \o <<banner, Event("not_recognized", model_class)>>
                /\ pc' = "stopped"
                /\ UNCHANGED predictions
           ELSE LET res == Predict(routine, dataset, checkpoint)
                IN  /\ trace' = trace \o <<banner, Event(routine, <<>>)>>
                    /\ IF res.ok
                       THEN /\ predictions' = res.val
                            /\ pc' = "export"
                       ELSE /\ pc' = "crashed"
                            /\ UNCHANGED predictions
    /\ UNCHANGED <<opt_name, fs, fs0, now, dirs, results_name, results_path, timestamp,
                   response, checkpoint, model_class, dataset>>

(***************************************************************************)
(* Lines 145-159: the report.                                              *)
(***************************************************************************)
\* d[k] = v on a dict
Put(d, k, v) == [x \in (DOMAIN d) \cup {k} |-> IF x = k THEN v ELSE d[x]]

\* lines 146-150: the loop over zip(dataset.data, predictions) from pair i on
RECURSIVE PredictionLabels(_, _, _, _)
PredictionLabels(data, preds, i, acc) ==
    IF i > Min(Len(data), Len(preds)) THEN acc
    ELSE PredictionLabels(data, preds, i + 1,
                          Put(acc, data[i].path, YToLabel[preds[i] + 1]))

\* lines 152-155
Results(data, preds, mc) ==
    [predictions |-> PredictionLabels(data, preds, 1, <<>>),
     checkpoint_path |-> CheckpointFile,
     model |-> mc]

Export ==
    /\ pc = "export"
    /\ IF Parent(results_path) \in dirs
       THEN /\ fs' = Put(fs, results_path, Results(dataset, predictions, model_class))
            /\ trace' = trace \o <<Event("exporting_results", <<>>),
                                   Event("open_w", results_path),
                                   Event("done", <<>>)>>
            /\ pc' = "done"
       ELSE \* open() raises FileNotFoundError: the directory is never created
            /\ fs' = fs
            /\ trace' = trace \o <<Event("exporting_results", <<>>),
                                   Event("open_w", results_path)>>
            /\ pc' = "crashed"
    /\ UNCHANGED <<opt_name, fs0, now, dirs, results_name, results_path, timestamp,
                   response, checkpoint, model_class, dataset, predictions>>

Next ==
    \/ Start
    \/ Ask
    \/ LoadCheckpoint
    \/ LoadData
    \/ ComputePredictions
    \/ Export

Spec == Init /\ [][Next]_vars


(***************************************************************************)
(* What a run did, read off its trace.                                     *)
(***************************************************************************)
Routines == {"predict_gnn", "predict_cnn", "predict_xgb"}

At(e) == {i \in DOMAIN trace : trace[i].ev = e}
Happened(e) == At(e) # {}
RoutineCalls == {i \in DOMAIN trace : trace[i].ev \in Routines}

Recognized(mc) == Contains(mc, ManNet) \/ Contains(mc, CNN) \/ Contains(mc, XGB)
SaidYes == response # None /\ Lower(Strip(response)) = <<"y">>

(***************************************************************************)
(* C1: whenever predict() reaches "Done", the report's "predictions" has   *)
(* exactly one entry per loaded sample, keyed by that sample's path: as    *)
(* many entries as the dataset has samples, every sample's path among the  *)
(* keys.  The code keys a dict by str(sample.path), so two samples with    *)
(* the same path leave one entry: TLC finds this violated.                 *)
(***************************************************************************)
C1_OneEntryPerSample ==
    pc = "done" =>
        LET report == fs[results_path].predictions
        IN  /\ \A i \in DOMAIN dataset : dataset[i].path \in DOMAIN report
            /\ Cardinality(DOMAIN report) = Len(dataset)

(***************************************************************************)
(* C2: in a run that reached the prediction stage at most one of           *)
(* predict_gnn, predict_cnn, predict_xgb was called, at most once; one was *)
(* called iff model_class contains "ManNet", "CNN" or "XGB", and it is     *)
(* predict_gnn when "ManNet" occurs, else predict_cnn when "CNN" occurs,   *)
(* else predict_xgb.                                                       *)
(***************************************************************************)
C2_OneRoutineByPrecedence ==
    /\ Cardinality(RoutineCalls) <= 1
    /\ RoutineCalls # {} => Happened("computing_predictions")
    /\ Happened("computing_predictions") =>
          /\ (RoutineCalls # {}) <=> Recognized(model_class)
          /\ \A i \in RoutineCalls :
                trace[i].ev =
                    IF Contains(model_class, ManNet) THEN "predict_gnn"
                    ELSE IF Contains(model_class, CNN) THEN "predict_cnn"
                    ELSE "predict_xgb"

\* a run whose model_class contains both "CNN" and "ManNet" called predict_gnn
C2_Witness ==
    /\ Contains(model_class, CNN)
    /\ Contains(model_class, ManNet)
    /\ Happened("predict_gnn")
    /\ pc = "done"

(***************************************************************************)
(* C3: predict() is linear.  The stages overwrite check, load checkpoint,  *)
(* load data, compute predictions, export results, Done occur at most once *)
(* each and only in this order, none before the one preceding it; the      *)
(* results file is opened for writing only after a prediction routine has  *)
(* been called and the export stage has begun.                             *)
(***************************************************************************)
Stages ==
    <<"exists", "loading_checkpoint", "loading_data", "computing_predictions",
      "exporting_results", "done">>

StageOf(e) == CHOOSE k \in DOMAIN Stages : Stages[k] = e

StageEvents == {i \in DOMAIN trace : \E k \in DOMAIN Stages : Stages[k] = trace[i].ev}

C3_Linear ==
    /\ \A k \in DOMAIN Stages : Cardinality(At(Stages[k])) <= 1
    /\ \A i, j \in StageEvents :
          i < j => StageOf(trace[i].ev) < StageOf(trace[j].ev)
    /\ \A j \in StageEvents :
          StageOf(trace[j].ev) > 1 =>
              \E i \in StageEvents :
                  i < j /\ StageOf(trace[i].ev) = StageOf(trace[j].ev) - 1
    /\ Cardinality(At("open_w")) <= 1
    /\ \A j \in At("open_w") :
          /\ \E i \in RoutineCalls : i < j
          /\ \E i \in At("exporting_results") : i < j
          /\ \A i \in StageEvents : i > j => trace[i].ev = "done"

\* a complete run that asked before overwriting
C3_Witness ==
    /\ pc = "done"
    /\ Happened("prompt")
    /\ \A k \in DOMAIN Stages : Happened(Stages[k])
    /\ Happened("open_w")

C4_WitnessTimestamp ==
    /\ pc = "done"
    /\ opt_name = None
    /\ timestamp # now
    /\ results_path = <<"/", "out", "/", "results_", now, ".json">>

(***************************************************************************)
(* C5: the overwrite guard.  The question is asked exactly when the        *)
(* results path existed at the start.  After an answer that, trimmed and   *)
(* lower-cased, is not "y" (the empty answer too), the run has stopped: no *)
(* checkpoint loaded, no prediction routine called, the file system as it  *)
(* was.  A results file that existed at the start is opened for writing    *)
(* only in a run whose answer was "y".                                     *)
(***************************************************************************)
C5_OverwriteGuard ==
    /\ (pc \notin {"start", "ask"} /\ results_path \in DOMAIN fs0) =>
          Happened("prompt")
    /\ (response # None /\ Lower(Strip(response)) # <<"y">>) =>
          /\ pc = "stopped"
          /\ results_path \in DOMAIN fs0
          /\ ~Happened("loading_checkpoint")
          /\ checkpoint = [unbound |-> TRUE]
          /\ RoutineCalls = {}
          /\ ~Happened("open_w")
          /\ fs = fs0
    /\ (results_path \in DOMAIN fs0 /\ (Happened("open_w") \/ fs # fs0)) =>
          SaidYes

\* the empty answer stopped a run whose results file existed
C5_Witness ==
    /\ pc = "stopped"
    /\ response = <<>>
    /\ results_path \in DOMAIN fs
    /\ fs = fs0

(***************************************************************************)
(* C6: with a model_class containing none of "ManNet", "CNN", "XGB" the    *)
(* run stops at the prediction stage, after loading the checkpoint and the *)
(* data: no prediction routine is called, the results file is neither      *)
(* opened nor created nor changed, also after a "y" to the overwrite       *)
(* question.                                                               *)
(***************************************************************************)
C6_Unrecognized ==
    (model_class # None /\ ~Recognized(model_class)) =>
        /\ pc \in {"load_data", "compute", "stopped", "crashed"}
        /\ RoutineCalls = {}
        /\ ~Happened("open_w")
        /\ ~Happened("exporting_results")
        /\ fs = fs0
        /\ Happened("computing_predictions") =>
              /\ pc = "stopped"
              /\ Happened("not_recognized")
              /\ Happened("loading_checkpoint")
              /\ Happened("loading_data")

\* an unrecognized model stopped a run that had confirmed the overwrite
C6_Witness ==
    /\ pc = "stopped"
    /\ Happened("not_recognized")
    /\ ~Recognized(model_class)
    /\ SaidYes
    /\ results_path \in DOMAIN fs
    /\ fs[results_path] = OldContent

=============================================================================
